---- MODULE Spec2Model ----
(***************************************************************************)
(* State-machine model of static/js/script.js: the SearchApp controller    *)
(* (search session, URL/history synchronisation, result rendering, share   *)
(* controller) and of its pure formatting functions.                      *)
(*                                                                         *)
(* Strings are sequences of one-character strings.  An optional value      *)
(* (null / undefined / absent) is the empty tuple, a present value v is     *)
(* the one-element tuple <<v>>.                                            *)
(***************************************************************************)
EXTENDS Integers, Sequences, FiniteSets, TLC

VARIABLES
    input,        \* searchInput.value
    isSearching,  \* this.isSearching
    ui,           \* the DOM elements the class holds (classes, text, disabled)
    search,       \* window.location.search without the leading "?"
    entries,      \* session history: the search string of every entry
    idx,          \* index of the current history entry
    sessions,     \* performSearch calls suspended at an await, oldest first
    nRequests,    \* number of fetch('/search') calls issued so far
    unhandled,    \* an exception left performSearch (unhandledrejection)
    last,         \* the most recent handler run and the query it resolved
    share,        \* share controller: notification, timers, suspended calls
    call,         \* a formatting function under call and its argument
    ret           \* what that call returned (absent until it has returned)

vars == <<input, isSearching, ui, search, entries, idx, sessions, nRequests,
          unhandled, last, share, call, ret>>

-----------------------------------------------------------------------------
(* Bounds *)

\* fetch calls issued in one behaviour (each accepted search also pushes a
\* history entry, so the history holds at most MaxRequests + 1 entries)
MaxRequests == 2

\* longest query of the deep-link specification
MaxLinkLen == 3

\* longest text given to the formatting functions, apart from a few samples
MaxTextLen == 3

\* shareCurrentSearch calls in one behaviour of the share specification
MaxShares == 3

\* the scores from 0 to SmallScoreMax millionths are all formatted
SmallScoreMax == 1100

-----------------------------------------------------------------------------
(* Optional values *)

None == <<>>

Some(v) == <<v>>

\* JavaScript truthiness of an optional string
Truthy(o) == o # None /\ o[1] # <<>>

-----------------------------------------------------------------------------
(* Strings *)

LF == "\n"

QUOT == "\""

APOS == "'"

\* the white space of the strings modelled: space and line feed
WhiteSpace == {" ", LF}

RECURSIVE TrimStart(_)
TrimStart(s) ==
    IF s # <<>> /\ Head(s) \in WhiteSpace THEN TrimStart(Tail(s)) ELSE s

RECURSIVE TrimEnd(_)
TrimEnd(s) ==
    IF s # <<>> /\ s[Len(s)] \in WhiteSpace
    THEN TrimEnd(SubSeq(s, 1, Len(s) - 1)) ELSE s

\* String.prototype.trim
Trim(s) == TrimEnd(TrimStart(s))

-----------------------------------------------------------------------------
(* URLSearchParams: application/x-www-form-urlencoded *)

\* the bytes the serializer leaves alone
Unreserved == {"a", "b", "q", "x", "0", "2", "3", "5", "6", "B", "D"}

\* serializer, one character
EncodeCharPlain(c) == <<c>>

EncodeChar(c) ==
    IF c = " " THEN <<"+">>
    ELSE IF c \in Unreserved THEN <<c>>
    ELSE IF c = "+" THEN <<"%", "2", "B">>
    ELSE IF c = "&" THEN <<"%", "2", "6">>
    ELSE IF c = "=" THEN <<"%", "3", "D">>
    ELSE IF c = "%" THEN <<"%", "2", "5">>
    ELSE <<c>>

RECURSIVE Encode(_)
Encode(s) == IF s = <<>> THEN <<>> ELSE EncodeChar(Head(s)) \o Encode(Tail(s))

\* the byte a %XX escape stands for; None when XX is not a hex pair
HexByte(h, l) ==
    IF <<h, l>> = <<"2", "0">> THEN Some(" ")
    ELSE IF <<h, l>> = <<"2", "B">> THEN Some("+")
    ELSE IF <<h, l>> = <<"2", "6">> THEN Some("&")
    ELSE IF <<h, l>> = <<"3", "D">> THEN Some("=")
    ELSE IF <<h, l>> = <<"2", "5">> THEN Some("%")
    ELSE None

\* parser, one name or value: "+" is a space, then percent-decoding
RECURSIVE Decode(_)
Decode(s) ==
    IF s = <<>> THEN <<>>
    ELSE IF Head(s) = "+" THEN <<" ">> \o Decode(Tail(s))
    ELSE IF Head(s) = "%" /\ Len(s) >= 3 /\ HexByte(s[2], s[3]) # None
         THEN HexByte(s[2], s[3]) \o Decode(SubSeq(s, 4, Len(s)))
    ELSE <<Head(s)>> \o Decode(Tail(s))

\* index of the first c in s, 0 when there is none
RECURSIVE IndexOf(_, _)
IndexOf(s, c) ==
    IF s = <<>> THEN 0
    ELSE IF Head(s) = c THEN 1
    ELSE LET r == IndexOf(Tail(s), c) IN IF r = 0 THEN 0 ELSE r + 1

\* s split at every c
RECURSIVE Split(_, _)
Split(s, c) ==
    LET i == IndexOf(s, c) IN
    IF i = 0 THEN <<s>>
    ELSE <<SubSeq(s, 1, i - 1)>> \o Split(SubSeq(s, i + 1, Len(s)), c)

\* one "name=value" piece as a decoded pair
ParsePair(p) ==
    LET i == IndexOf(p, "=") IN
    IF i = 0 THEN [name |-> Decode(p), value |-> <<>>]
    ELSE [name |-> Decode(SubSeq(p, 1, i - 1)),
          value |-> Decode(SubSeq(p, i + 1, Len(p)))]

\* new URLSearchParams(string): the list of decoded pairs
ParseParams(s) ==
    LET pieces == SelectSeq(Split(s, "&"), LAMBDA p : p # <<>>) IN
    [i \in 1..Len(pieces) |-> ParsePair(pieces[i])]

RECURSIVE SerializeParams(_)
SerializeParams(ps) ==
    IF ps = <<>> THEN <<>>
    ELSE Encode(ps[1].name) \o <<"=">> \o Encode(ps[1].value)
         \o (IF Len(ps) > 1 THEN <<"&">> \o SerializeParams(Tail(ps)) ELSE <<>>)

\* URLSearchParams.get: the first value of the name, null when absent
ParamsGet(ps, name) ==
    LET hits == SelectSeq(ps, LAMBDA p : p.name = name) IN
    IF hits = <<>> THEN None ELSE Some(hits[1].value)

\* URLSearchParams.delete
ParamsDelete(ps, name) == SelectSeq(ps, LAMBDA p : p.name # name)

\* URLSearchParams.set: the first pair of the name gets the value, the other
\* pairs of the name go, a missing name is appended
ParamsSet(ps, name, value) ==
    LET first == CHOOSE i \in 1..Len(ps) : ps[i].name = name
                     /\ \A j \in 1..(i - 1) : ps[j].name # name
    IN  IF \E i \in 1..Len(ps) : ps[i].name = name
        THEN SubSeq(ps, 1, first - 1)
             \o <<[name |-> name, value |-> value]>>
             \o ParamsDelete(SubSeq(ps, first + 1, Len(ps)), name)
        ELSE Append(ps, [name |-> name, value |-> value])

QName == <<"q">>

\* the q parameter of a search string
UrlQ(s) == ParamsGet(ParseParams(s), QName)

-----------------------------------------------------------------------------
(* Messages: the literals of the source and the error.message texts of the  *)
(* exceptions the runtime throws, each written as a one-symbol string      *)

MsgEmptyQuery == <<"enter-a-query">>          \* the literal of line 62
MsgSearchFailed == <<"search-failed">>        \* the default of line 94
MsgUnknownError == <<"unknown-error">>        \* the default of line 102
MsgNetwork == <<"TypeError: fetch failed">>   \* fetch() rejected
MsgParse == <<"SyntaxError: bad JSON">>       \* response.json() rejected
MsgRender == <<"TypeError: undefined">>       \* a property read of undefined

-----------------------------------------------------------------------------
(* The DOM elements the constructor looks up *)

Sections ==
    {"loadingSpinner", "resultsContainer", "summarySection", "noResults",
     "errorMessage"}

\* the page as served: every section and the share button carry class hidden
InitialUi ==
    [hidden |-> Sections \cup {"shareButton"},
     errorText |-> <<>>,
     resultsCount |-> 0,
     resultsList |-> <<>>,
     summaryContent |-> None,
     buttonDisabled |-> FALSE,
     inputDisabled |-> FALSE,
     buttonHTML |-> "search"]

Visible(u, e) == e \notin u.hidden

\* classList.add('hidden') / classList.remove('hidden')
Hide(u, e) == [u EXCEPT !.hidden = @ \cup {e}]

Show(u, e) == [u EXCEPT !.hidden = @ \ {e}]

HideAllSectionsKeepError(u) ==
    [u EXCEPT !.hidden = @ \cup (Sections \ {"errorMessage"})]

HideAllSections(u) == [u EXCEPT !.hidden = @ \cup Sections]

ShowError(u, message) ==
    Show([HideAllSections(u) EXCEPT !.errorText = message], "errorMessage")

ShowLoading(u) == Show(HideAllSections(u), "loadingSpinner")

HideLoading(u) == Hide(u, "loadingSpinner")

\* disableSearch that leaves the input field enabled
DisableSearchButtonOnly(u) ==
    [u EXCEPT !.buttonDisabled = TRUE, !.buttonHTML = "searching"]

DisableSearch(u) ==
    [u EXCEPT !.buttonDisabled = TRUE, !.inputDisabled = TRUE,
              !.buttonHTML = "searching"]

EnableSearch(u) ==
    [u EXCEPT !.buttonDisabled = FALSE, !.inputDisabled = FALSE,
              !.buttonHTML = "search"]

-----------------------------------------------------------------------------
(* Result rendering *)

\* createResultElement: reading result.content.length throws when content is
\* undefined; otherwise the element is numbered and carries the result
ElementThrows(result) == result.content = None

CreateResultElement(result, number) == [number |-> number, result |-> result]

\* the first result whose element cannot be built, 0 when all can
FirstThrowing(results) ==
    IF \E i \in 1..Len(results) : ElementThrows(results[i])
    THEN CHOOSE i \in 1..Len(results) : ElementThrows(results[i])
             /\ \A j \in 1..(i - 1) : ~ElementThrows(results[j])
    ELSE 0

\* resultsList.innerHTML = '' and then one appendChild per result
ResultsListAppending(old, results, n) ==
    old \o [i \in 1..n |-> CreateResultElement(results[i], i)]

ResultsListAfter(old, results, n) ==
    [i \in 1..n |-> CreateResultElement(results[i], i)]

DisplaySummary(u, summary) ==
    Show([u EXCEPT !.summaryContent = Some(summary)], "summarySection")

\* displayResults(data): the DOM it leaves and the message of the exception it
\* throws, if any
DisplayResults(u, data) ==
    LET u1 == HideAllSections(u) IN
    IF data.results = None
    THEN [ui |-> u1, thrown |-> Some(MsgRender)]
    ELSE LET results == data.results[1] IN
         IF Len(results) = 0
         THEN [ui |-> Show(u1, "noResults"), thrown |-> None]
         ELSE LET u2 == IF Truthy(data.summary)
                        THEN DisplaySummary(u1, data.summary[1]) ELSE u1
                  bad == FirstThrowing(results)
                  n == IF bad = 0 THEN Len(results) ELSE bad - 1
                  u3 == [u2 EXCEPT !.resultsCount = Len(results),
                             !.resultsList =
                                 ResultsListAfter(u2.resultsList, results, n)]
              IN  IF bad = 0
                  THEN [ui |-> Show(u3, "resultsContainer"), thrown |-> None]
                  ELSE [ui |-> u3, thrown |-> Some(MsgRender)]

-----------------------------------------------------------------------------
(* The program state as one record, so that a handler can call another *)

Cur ==
    [input |-> input, isSearching |-> isSearching, ui |-> ui,
     search |-> search, entries |-> entries, idx |-> idx,
     sessions |-> sessions, nRequests |-> nRequests,
     unhandled |-> unhandled, last |-> last]

\* the share controller after construction: the notification carries class
\* hidden as served, no timer is pending, no shareCurrentSearch call is
\* suspended, no textarea is attached to the document body
\* (pending holds the URL each suspended call is writing; clipboard is what
\* the system clipboard holds; logged counts console.error calls; calls
\* counts shareCurrentSearch calls; did names the last share step)
InitialShare ==
    [notificationHidden |-> TRUE, timers |-> 0, pending |-> <<>>,
     textAreas |-> 0, clipboard |-> None, logged |-> 0, calls |-> 0,
     did |-> "none"]

\* no formatting function is under call
NoCall == [fn |-> "none"]

\* the share controller is as constructed and no formatting call is under way
Aside == share = InitialShare /\ call = NoCall /\ ret = None

\* the controller's fields, the DOM and the history are those of st (used by
\* the initial predicates)
Is(st) ==
    /\ input = st.input
    /\ isSearching = st.isSearching
    /\ ui = st.ui
    /\ search = st.search
    /\ entries = st.entries
    /\ idx = st.idx
    /\ sessions = st.sessions
    /\ nRequests = st.nRequests
    /\ unhandled = st.unhandled
    /\ last = st.last

\* the next state is st (used by the actions)
Becomes(st) ==
    /\ UNCHANGED <<share, call, ret>>
    /\ input' = st.input
    /\ isSearching' = st.isSearching
    /\ ui' = st.ui
    /\ search' = st.search
    /\ entries' = st.entries
    /\ idx' = st.idx
    /\ sessions' = st.sessions
    /\ nRequests' = st.nRequests
    /\ unhandled' = st.unhandled
    /\ last' = st.last

\* what the last handler did: op is the handler's outcome, arg and query the
\* argument and the effective query of a performSearch call, outcome and
\* detail describe the response a completed search got
Did(op, arg, query) ==
    [op |-> op, arg |-> arg, query |-> query, outcome |-> "", detail |-> None]

-----------------------------------------------------------------------------
(* URL State: updateUrl, getShareableUrl *)

\* history.pushState: the entries after the current one are dropped
PushState(st, url) ==
    [st EXCEPT !.entries = Append(SubSeq(st.entries, 1, st.idx), url),
               !.idx = st.idx + 1,
               !.search = url]

UpdateUrl(st, query) ==
    LET ps == ParseParams(st.search)
        ps2 == IF query # <<>> THEN ParamsSet(ps, QName, query)
                               ELSE ParamsDelete(ps, QName)
    IN  PushState(st, SerializeParams(ps2))

\* the search string of getShareableUrl(query): origin + pathname carry no
\* parameter, so q is the only one
GetShareableUrl(query) == SerializeParams(ParamsSet(<<>>, QName, query))

-----------------------------------------------------------------------------
(* Search Session Controller: performSearch up to its first await *)

\* const query = queryFromUrl || this.searchInput.value.trim()
EffectiveQuery(st, queryFromUrl) ==
    IF Truthy(queryFromUrl) THEN queryFromUrl[1] ELSE Trim(st.input)

\* if (this.isSearching) return
NeverBusy(st) == FALSE

Busy(st) == st.isSearching

\* lines 70-89: the accepted call up to the suspension at await fetch(...)
StartSearch(st, queryFromUrl, query) ==
    LET st1 == IF Truthy(queryFromUrl) THEN [st EXCEPT !.input = query] ELSE st
        st2 == UpdateUrl(st1, query)
    IN  [st2 EXCEPT
            !.isSearching = TRUE,
            !.ui = DisableSearch(ShowLoading(@)),
            !.sessions = Append(@, [query |-> query, stage |-> "fetch",
                                    ok |-> FALSE]),
            !.nRequests = @ + 1,
            !.last = Did("accepted", queryFromUrl, query)]

PerformSearch(st, queryFromUrl) ==
    LET query == EffectiveQuery(st, queryFromUrl) IN
    IF query = <<>>
    THEN [st EXCEPT !.ui = ShowError(@, MsgEmptyQuery),
                    !.last = Did("rejected", queryFromUrl, query)]
    ELSE IF Busy(st)
    THEN [st EXCEPT !.last = Did("dropped", queryFromUrl, query)]
    ELSE StartSearch(st, queryFromUrl, query)

\* loadFromUrl
LoadFromUrlAlways(st) == PerformSearch(st, UrlQ(st.search))

LoadFromUrl(st) ==
    LET query == UrlQ(st.search) IN
    IF Truthy(query)
    THEN PerformSearch(st, query)
    ELSE [st EXCEPT !.last = Did("noquery", None, <<>>)]

-----------------------------------------------------------------------------
(* performSearch after the awaits: try body, catch, finally *)

\* data.error || fallback
ErrorFieldOr(data, fallback) ==
    IF Truthy(data.error) THEN data.error[1] ELSE fallback

\* lines 93-103: the DOM the try block leaves and the exception it throws
TryBodyWithoutShare(u, ok, data) ==
    IF ~ok
    THEN [ui |-> u, thrown |-> Some(ErrorFieldOr(data, MsgSearchFailed))]
    ELSE IF data.success
    THEN DisplayResults(u, data)
    ELSE [ui |-> u, thrown |-> Some(ErrorFieldOr(data, MsgUnknownError))]

TryBody(u, ok, data) ==
    IF ~ok
    THEN [ui |-> u, thrown |-> Some(ErrorFieldOr(data, MsgSearchFailed))]
    ELSE IF data.success
    THEN LET r == DisplayResults(u, data) IN
         IF r.thrown = None
         THEN [ui |-> Show(r.ui, "shareButton"), thrown |-> None]
         ELSE r
    ELSE [ui |-> u, thrown |-> Some(ErrorFieldOr(data, MsgUnknownError))]

\* catch (error) { ... this.showError(error.message) }: no exception passes it
CatchNothing(u, thrown) == [ui |-> u, escaped |-> thrown # None]

Catch(u, thrown) ==
    [ui |-> IF thrown = None THEN u ELSE ShowError(u, thrown[1]),
     escaped |-> FALSE]

\* finally { ... }
FinallyKeepsFlag(st) == [st EXCEPT !.ui = EnableSearch(HideLoading(@))]

Finally(st) ==
    [st EXCEPT !.isSearching = FALSE, !.ui = EnableSearch(HideLoading(@))]

\* s without its i-th element
RemoveAt(s, i) == SubSeq(s, 1, i - 1) \o SubSeq(s, i + 1, Len(s))

\* session i leaves the try block with result r = [ui, thrown]
Settle(st, i, r, outcome, detail) ==
    LET c == Catch(r.ui, r.thrown)
        st1 == [st EXCEPT
                   !.ui = c.ui,
                   !.unhandled = @ \/ c.escaped,
                   !.sessions = RemoveAt(@, i),
                   !.last = [op |-> "completed", arg |-> None,
                             query |-> st.sessions[i].query,
                             outcome |-> outcome, detail |-> detail]]
    IN  Finally(st1)

-----------------------------------------------------------------------------
(* Inputs *)

\* values the user leaves in the input field: nothing, " a"
Typed == {<<>>, <<" ", "a">>}

\* location.search when the page is loaded: no parameter, "q=", "q=+"
\* (a single space) and "q=b"
InitSearches ==
    {<<>>, <<"q", "=">>, <<"q", "=", "+">>, <<"q", "=", "b">>}

R1 == [content |-> Some(<<"a">>)]

R2 == [content |-> Some(<<"b">>)]

\* a result without content
RBad == [content |-> None]

ResultLists == {<<>>, <<R1>>, <<R1, R2>>, <<R1, RBad>>}

\* bodies with success:true; results may be missing altogether
SuccessDatas ==
    [success : {TRUE},
     results : {None} \cup {Some(r) : r \in ResultLists},
     summary : {None, Some(<<"a">>)},
     error : {None}]

\* bodies with success:false: no error field, an empty one, a message
FailureDatas ==
    [success : {FALSE},
     results : {None},
     summary : {None},
     error : {None, Some(<<>>), Some(<<"b">>)}]

\* the bodies a response can carry: a response that is not ok carries a
\* failure body
Datas(ok) == IF ok THEN SuccessDatas \cup FailureDatas ELSE FailureDatas

-----------------------------------------------------------------------------
(* Initial state: the constructor, which ends in loadFromUrl() *)

Constructed(input0, search0) ==
    LoadFromUrl([input |-> input0, isSearching |-> FALSE, ui |-> InitialUi,
                 search |-> search0, entries |-> <<search0>>, idx |-> 1,
                 sessions |-> <<>>, nRequests |-> 0, unhandled |-> FALSE,
                 last |-> Did("noquery", None, <<>>)])

Init ==
    /\ \E input0 \in Typed, search0 \in InitSearches :
           \E st \in {Constructed(input0, search0)} : Is(st)
    /\ Aside

-----------------------------------------------------------------------------
(* Actions *)

\* the user edits the input field (an enabled field only)
TypeInput(v) ==
    /\ ~ui.inputDisabled
    /\ v # input
    /\ input' = v
    /\ last' = Did("typed", None, <<>>)
    /\ UNCHANGED <<isSearching, ui, search, entries, idx, sessions, nRequests,
                   unhandled, share, call, ret>>

\* click on the search button, or Enter in the input field: performSearch().
\* The browser delivers neither event to a disabled control.
Submit ==
    /\ ~ui.buttonDisabled \/ ~ui.inputDisabled
    /\ \E st \in {PerformSearch(Cur, None)} :
           /\ st.nRequests <= MaxRequests
           /\ Becomes(st)

\* back/forward: the browser makes entry j current, then popstate fires
PopState(j) ==
    /\ j \in 1..Len(entries)
    /\ j # idx
    /\ \E st \in {LoadFromUrl([Cur EXCEPT !.idx = j, !.search = entries[j]])} :
           /\ st.nRequests <= MaxRequests
           /\ Becomes(st)

\* await fetch(...) rejects: network failure
FetchReject(i) ==
    /\ i \in 1..Len(sessions)
    /\ sessions[i].stage = "fetch"
    /\ \E st \in {Settle(Cur, i, [ui |-> ui, thrown |-> Some(MsgNetwork)],
                         "network", None)} : Becomes(st)

\* await fetch(...) resolves with a response whose ok flag is known
FetchResolve(i, ok) ==
    /\ i \in 1..Len(sessions)
    /\ sessions[i].stage = "fetch"
    /\ sessions' = [sessions EXCEPT ![i].stage = "json", ![i].ok = ok]
    /\ UNCHANGED <<input, isSearching, ui, search, entries, idx, nRequests,
                   unhandled, last, share, call, ret>>

\* await response.json() rejects: the body is not JSON
JsonReject(i) ==
    /\ i \in 1..Len(sessions)
    /\ sessions[i].stage = "json"
    /\ \E st \in {Settle(Cur, i, [ui |-> ui, thrown |-> Some(MsgParse)],
                         "malformed", None)} : Becomes(st)

\* await response.json() resolves with data
JsonResolve(i, data) ==
    /\ i \in 1..Len(sessions)
    /\ sessions[i].stage = "json"
    /\ data \in Datas(sessions[i].ok)
    /\ LET ok == sessions[i].ok
           r == TryBody(ui, ok, data)
           outcome == IF ~ok THEN "http"
                      ELSE IF ~data.success THEN "failed"
                      ELSE IF r.thrown # None THEN "renderError"
                      ELSE "rendered"
       IN  \E st \in {Settle(Cur, i, r, outcome, Some(data))} : Becomes(st)

\* the continuations of the suspended performSearch calls
Continue ==
    \E i \in 1..MaxRequests :
        \/ FetchReject(i)
        \/ \E ok \in BOOLEAN : FetchResolve(i, ok)
        \/ JsonReject(i)
        \/ \E data \in SuccessDatas \cup FailureDatas : JsonResolve(i, data)

Next ==
    \/ \E v \in Typed : TypeInput(v)
    \/ Submit
    \/ \E j \in 1..(MaxRequests + 1) : PopState(j)
    \/ Continue

Spec == Init /\ [][Next]_vars

\* a request that was sent is answered or fails
FairSpec == Spec /\ WF_vars(Continue)

-----------------------------------------------------------------------------
(* Deep links: the page is loaded at a shareable URL and only the           *)
(* continuations of the search it starts run (no user interaction)         *)

LinkChars == {"a", " ", "+", "&", "=", "%"}

RECURSIVE StringsUpTo(_)
StringsUpTo(n) ==
    IF n = 0 THEN {<<>>}
    ELSE LET shorter == StringsUpTo(n - 1) IN
         shorter \cup {Append(s, c) : s \in shorter, c \in LinkChars}

\* the non-empty trimmed queries
LinkQueries == {s \in StringsUpTo(MaxLinkLen) : s # <<>> /\ Trim(s) = s}

\* getShareableUrl, tabulated over the queries: the pairs <<x, url of x>>
ShareableUrls == {<<x, GetShareableUrl(x)>> : x \in LinkQueries}

InitLink ==
    /\ \E input0 \in Typed, link \in ShareableUrls :
           \E st \in {Constructed(input0, link[2])} : Is(st)
    /\ Aside

NextLink == Continue

SpecLink == InitLink /\ [][NextLink]_vars

-----------------------------------------------------------------------------
(* Markup Formatter: formatText, formatSummary, escapeHtml *)

\* every c of s replaced by the string r (String.prototype.replace, /c/g)
RECURSIVE ReplaceAll(_, _, _)
ReplaceAll(s, c, r) ==
    IF s = <<>> THEN <<>>
    ELSE (IF Head(s) = c THEN r ELSE <<Head(s)>>) \o ReplaceAll(Tail(s), c, r)

EntAmp == <<"&", "a", "m", "p", ";">>

EntLt == <<"&", "l", "t", ";">>

EntGt == <<"&", "g", "t", ";">>

EntQuot == <<"&", "q", "u", "o", "t", ";">>

EntApos == <<"&", "#", "0", "3", "9", ";">>

TagP == <<"<", "p", ">">>

TagPEnd == <<"<", "/", "p", ">">>

TagBr == <<"<", "b", "r", ">">>

\* the local escapeHtml of formatSummary and of formatText (the same five
\* replacements in the same order)
EscapeAmpLast(unsafe) ==
    ReplaceAll(ReplaceAll(ReplaceAll(ReplaceAll(ReplaceAll(
        unsafe, "<", EntLt), ">", EntGt), QUOT, EntQuot), APOS, EntApos),
        "&", EntAmp)

EscapeReplacing(unsafe) ==
    ReplaceAll(ReplaceAll(ReplaceAll(ReplaceAll(ReplaceAll(
        unsafe, "&", EntAmp), "<", EntLt), ">", EntGt), QUOT, EntQuot),
        APOS, EntApos)

\* this.escapeHtml: div.textContent = text; return div.innerHTML.  The
\* serialisation of a text node escapes &, < and > only.
EscapeHtml(text) ==
    ReplaceAll(ReplaceAll(ReplaceAll(text, "&", EntAmp), "<", EntLt),
               ">", EntGt)

\* s begins with p
StartsWith(s, p) == Len(s) >= Len(p) /\ SubSeq(s, 1, Len(p)) = p

\* String.prototype.includes
RECURSIVE Includes(_, _)
Includes(s, sub) ==
    IF Len(s) < Len(sub) THEN FALSE
    ELSE StartsWith(s, sub) \/ Includes(Tail(s), sub)

\* the number of line feeds s begins with
RECURSIVE LeadingLFs(_)
LeadingLFs(s) ==
    IF s # <<>> /\ Head(s) = LF THEN 1 + LeadingLFs(Tail(s)) ELSE 0

\* .replace(/\n\n+/g, '</p><p>'): every maximal run of two or more line feeds
RECURSIVE ReplaceLFRuns(_)
ReplaceLFRuns(s) ==
    IF s = <<>> THEN <<>>
    ELSE LET n == LeadingLFs(s) IN
         IF n >= 2
         THEN TagPEnd \o TagP \o ReplaceLFRuns(SubSeq(s, n + 1, Len(s)))
         ELSE <<Head(s)>> \o ReplaceLFRuns(Tail(s))

FormatText(text) ==
    LET escapedText == EscapeReplacing(text)
        formattedText == ReplaceAll(ReplaceLFRuns(escapedText), LF, TagBr)
    IN  IF Includes(formattedText, TagPEnd \o TagP)
        THEN TagP \o formattedText \o TagPEnd
        ELSE formattedText

\* index of the first "\n\n" in s, 0 when there is none
RECURSIVE IndexOfLFLF(_)
IndexOfLFLF(s) ==
    IF Len(s) < 2 THEN 0
    ELSE IF s[1] = LF /\ s[2] = LF THEN 1
    ELSE LET r == IndexOfLFLF(Tail(s)) IN IF r = 0 THEN 0 ELSE r + 1

\* .split('\n\n')
RECURSIVE SplitLFLF(_)
SplitLFLF(s) ==
    LET i == IndexOfLFLF(s) IN
    IF i = 0 THEN <<s>>
    ELSE <<SubSeq(s, 1, i - 1)>> \o SplitLFLF(SubSeq(s, i + 2, Len(s)))

\* the strings of a list joined without separator
RECURSIVE Join(_)
Join(ss) == IF ss = <<>> THEN <<>> ELSE Head(ss) \o Join(Tail(ss))

FormatSummary(summary) ==
    LET escapedText == EscapeReplacing(summary)
        paragraphs == SelectSeq(SplitLFLF(escapedText),
                                LAMBDA p : Trim(p) # <<>>)
        formattedParagraphs ==
            [i \in 1..Len(paragraphs) |->
                TagP \o ReplaceAll(Trim(paragraphs[i]), LF, TagBr) \o TagPEnd]
    IN  Join(formattedParagraphs)

\* the entities an HTML parser decodes, each with the character it stands for
Entities ==
    {<<"&", EntAmp>>, <<"<", EntLt>>, <<">", EntGt>>, <<QUOT, EntQuot>>,
     <<APOS, EntApos>>}

\* the characters the escaping is about
Special == {"<", ">", "&", QUOT}

\* element.innerHTML = m, read as an HTML parser reads it when the only tags
\* expected are those of tags: text is the character data the parser sees
\* (entities decoded, the expected tags left out), raw the special characters
\* that stand in m as themselves, neither in an expected tag nor in an entity
RECURSIVE ParseMarkup(_, _)
ParseMarkup(m, tags) ==
    IF m = <<>> THEN [raw |-> {}, text |-> <<>>]
    ELSE IF \E t \in tags : StartsWith(m, t)
    THEN LET t == CHOOSE t \in tags : StartsWith(m, t) IN
         ParseMarkup(SubSeq(m, Len(t) + 1, Len(m)), tags)
    ELSE IF \E e \in Entities : StartsWith(m, e[2])
    THEN LET e == CHOOSE e \in Entities : StartsWith(m, e[2])
             r == ParseMarkup(SubSeq(m, Len(e[2]) + 1, Len(m)), tags)
         IN  [raw |-> r.raw, text |-> <<e[1]>> \o r.text]
    ELSE LET r == ParseMarkup(Tail(m), tags) IN
         [raw |-> r.raw \cup ({Head(m)} \cap Special),
          text |-> <<Head(m)>> \o r.text]

\* characters of the texts given to the formatters
TextChars == {"a", " ", LF, "<", ">", "&", QUOT}

RECURSIVE StringsOver(_, _)
StringsOver(chars, n) ==
    IF n = 0 THEN {<<>>}
    ELSE LET shorter == StringsOver(chars, n - 1) IN
         shorter \cup {Append(s, c) : s \in shorter, c \in chars}

\* every text up to MaxTextLen, and a few longer ones: two paragraphs, a
\* script element, a quoted attribute, an entity written out
Texts ==
    StringsOver(TextChars, MaxTextLen)
    \cup {<<"a", LF, LF, "a", LF, "a">>,
          <<"<", "s", "c", "r", "i", "p", "t", ">">>,
          <<"a", QUOT, ">", "<", "a", " ", "b", "=", QUOT, "&", APOS>>,
          <<"&", "l", "t", ";", LF, LF, LF, " ", "a">>}

FormatFns == {"formatText", "formatSummary", "escapeHtml", "showError"}

\* one formatting function is about to be called with a text from the service
InitFormat ==
    /\ \E st \in {Constructed(<<>>, <<>>)} : Is(st)
    /\ share = InitialShare
    /\ call \in [fn : FormatFns, text : Texts]
    /\ ret = None

\* createResultElement: formatText(...) returns the markup of the content
FormatTextCall ==
    /\ call.fn = "formatText"
    /\ ret = None
    /\ ret' = Some(FormatText(call.text))
    /\ UNCHANGED <<input, isSearching, ui, search, entries, idx, sessions,
                   nRequests, unhandled, last, share, call>>

\* displaySummary: formatSummary(summary) returns the markup of the summary
FormatSummaryCall ==
    /\ call.fn = "formatSummary"
    /\ ret = None
    /\ ret' = Some(FormatSummary(call.text))
    /\ UNCHANGED <<input, isSearching, ui, search, entries, idx, sessions,
                   nRequests, unhandled, last, share, call>>

\* generateBreadcrumbs: this.escapeHtml(part) returns the markup of a heading
EscapeHtmlCall ==
    /\ call.fn = "escapeHtml"
    /\ ret = None
    /\ ret' = Some(EscapeHtml(call.text))
    /\ UNCHANGED <<input, isSearching, ui, search, entries, idx, sessions,
                   nRequests, unhandled, last, share, call>>

\* showError(message): the message becomes the text content of errorText
ShowErrorCall ==
    /\ call.fn = "showError"
    /\ ret = None
    /\ ui' = ShowError(ui, call.text)
    /\ ret' = Some(<<>>)
    /\ UNCHANGED <<input, isSearching, search, entries, idx, sessions,
                   nRequests, unhandled, last, share, call>>

NextFormat ==
    FormatTextCall \/ FormatSummaryCall \/ EscapeHtmlCall \/ ShowErrorCall

SpecFormat == InitFormat /\ [][NextFormat]_vars

-----------------------------------------------------------------------------
(* Markup Formatter: truncateText *)

\* the maxLength createResultElement passes to truncateText
MaxLength == 300

Ellipsis == <<".", ".", ".">>

\* String.prototype.lastIndexOf for one character: the 0-based index of the
\* last c of s, -1 when there is none
LastIndexOf(s, c) ==
    IF \E i \in 1..Len(s) : s[i] = c
    THEN (CHOOSE i \in 1..Len(s) :
              s[i] = c /\ \A j \in (i + 1)..Len(s) : s[j] # c) - 1
    ELSE -1

\* truncateText without the search for a space
TruncateHard(text, maxLength) ==
    IF Len(text) <= maxLength THEN text
    ELSE SubSeq(text, 1, maxLength) \o Ellipsis

\* lastSpaceIndex > maxLength * 0.8 is compared in tenths; for the maxLength
\* in use the product is the integer 240 in floating point too
TruncateText(text, maxLength) ==
    IF Len(text) <= maxLength THEN text
    ELSE LET truncated == SubSeq(text, 1, maxLength)
             lastSpaceIndex == LastIndexOf(truncated, " ")
         IN  IF lastSpaceIndex * 10 > maxLength * 8
             THEN SubSeq(truncated, 1, lastSpaceIndex) \o Ellipsis
             ELSE truncated \o Ellipsis

\* lengths of the contents: below, at and above maxLength
TruncLengths == {MaxLength - 1, MaxLength, MaxLength + 1, MaxLength + 2}

\* the position (counted from 1) of the character at 80% of maxLength
\* (index 240)
EightyPos == (MaxLength * 8) \div 10 + 1

\* positions of a content that may hold something else than a letter: the
\* first, those around 80% of maxLength, one well after it, the last kept by a
\* hard cut and the first dropped
MarkPositions ==
    {1, EightyPos - 1, EightyPos, EightyPos + 1, EightyPos + 10, MaxLength,
     MaxLength + 1}

\* what the marked positions hold: a letter or a space, and at one position
\* possibly a line feed
Markings ==
    {m \in [MarkPositions -> {"a", " ", LF}] :
        \A p \in MarkPositions : m[p] = LF => p = EightyPos + 10}

\* the content of length n with the marking m
MarkedText(n, m) == [i \in 1..n |-> IF i \in MarkPositions THEN m[i] ELSE "a"]

TruncTexts == {MarkedText(n, m) : n \in TruncLengths, m \in Markings}

InitTruncate ==
    /\ \E st \in {Constructed(<<>>, <<>>)} : Is(st)
    /\ share = InitialShare
    /\ call \in [fn : {"truncateText"}, text : TruncTexts]
    /\ ret = None

\* createResultElement: this.truncateText(result.content, 300) returns
TruncateTextCall ==
    /\ call.fn = "truncateText"
    /\ ret = None
    /\ ret' = Some(TruncateText(call.text, MaxLength))
    /\ UNCHANGED <<input, isSearching, ui, search, entries, idx, sessions,
                   nRequests, unhandled, last, share, call>>

NextTruncate == TruncateTextCall

SpecTruncate == InitTruncate /\ [][NextTruncate]_vars

-----------------------------------------------------------------------------
(* Source Link Resolver and Breadcrumb Builder *)

\* the base of the links, written as one symbol
SourceBase == <<"https://yandex.ru/support/market/ru/">>

\* generateSourceLink that resolves a link for any metadata
SourceLinkOfAnyPath(metadata) ==
    IF metadata = None THEN None
    ELSE LET m == metadata[1] IN
         Some(SourceBase \o (IF m.source_path = None THEN <<>>
                             ELSE m.source_path[1]))

GenerateSourceLink(metadata) ==
    IF metadata = None THEN None
    ELSE LET m == metadata[1] IN
         IF ~Truthy(m.source_path) THEN None
         ELSE Some(SourceBase \o m.source_path[1])

\* the elements of the breadcrumb markup: an element has a tag, the href of
\* an anchor, its class (item classes carry the position n as breadcrumb-hn)
\* and its content
Anchor(href, class, n, inner) ==
    [tag |-> "a", href |-> Some(href), class |-> class, n |-> n,
     inner |-> inner]

Span(n, inner) ==
    [tag |-> "span", href |-> None, class |-> "breadcrumb-item", n |-> n,
     inner |-> inner]

Separator ==
    [tag |-> "i", href |-> None, class |-> "breadcrumb-separator", n |-> 0,
     inner |-> <<>>]

\* the label of the standalone link, written as one symbol
OpenSourceLabel == <<"open-source">>

\* parts.join(separator)
RECURSIVE JoinWith(_, _)
JoinWith(parts, sep) ==
    IF parts = <<>> THEN <<>>
    ELSE IF Len(parts) = 1 THEN <<parts[1]>>
    ELSE <<parts[1], sep>> \o JoinWith(Tail(parts), sep)

\* the headings that are truthy, h1 then h2 then h3
BreadcrumbParts(m) ==
    (IF Truthy(m.h1) THEN <<m.h1[1]>> ELSE <<>>)
    \o (IF Truthy(m.h2) THEN <<m.h2[1]>> ELSE <<>>)
    \o (IF Truthy(m.h3) THEN <<m.h3[1]>> ELSE <<>>)

\* generateBreadcrumbs: null, or the elements of the markup it returns
GenerateBreadcrumbs(metadata, sourceLink) ==
    IF metadata = None THEN None
    ELSE LET breadcrumbParts == BreadcrumbParts(metadata[1]) IN
         IF Len(breadcrumbParts) = 0
         THEN IF sourceLink # None
              THEN Some(<<Anchor(sourceLink[1], "source-link-main", 0,
                                 OpenSourceLabel)>>)
              ELSE None
         ELSE Some(JoinWith(
                  [index \in 1..Len(breadcrumbParts) |->
                      IF sourceLink # None /\ index = Len(breadcrumbParts)
                      THEN Anchor(sourceLink[1], "breadcrumb-item breadcrumb-link",
                                  index, EscapeHtml(breadcrumbParts[index]))
                      ELSE Span(index, EscapeHtml(breadcrumbParts[index]))],
                  Separator))

\* createResultElement, lines 206-218: the content of the breadcrumb region,
\* null when the region is not rendered
BreadcrumbRegion(metadata) ==
    GenerateBreadcrumbs(metadata, GenerateSourceLink(metadata))

\* what a heading field can hold: nothing, an empty string, a heading
Headings(letter) == {None, Some(<<>>), Some(<<letter>>), Some(<<letter, "<">>)}

\* the metadata of a result: absent, or every combination of the fields
Metadatas ==
    {None} \cup
    {Some(m) : m \in [h1 : Headings("A"), h2 : Headings("B"),
                      h3 : Headings("C"),
                      source_path : {None, Some(<<>>), Some(<<"p">>)}]}

InitBreadcrumbs ==
    /\ \E st \in {Constructed(<<>>, <<>>)} : Is(st)
    /\ share = InitialShare
    /\ call \in [fn : {"generateBreadcrumbs"}, metadata : Metadatas]
    /\ ret = None

\* createResultElement: generateSourceLink and generateBreadcrumbs return
GenerateBreadcrumbsCall ==
    /\ call.fn = "generateBreadcrumbs"
    /\ ret = None
    /\ ret' = Some(BreadcrumbRegion(call.metadata))
    /\ UNCHANGED <<input, isSearching, ui, search, entries, idx, sessions,
                   nRequests, unhandled, last, share, call>>

NextBreadcrumbs == GenerateBreadcrumbsCall

SpecBreadcrumbs == InitBreadcrumbs /\ [][NextBreadcrumbs]_vars

-----------------------------------------------------------------------------
(* Share Controller: shareCurrentSearch, fallbackCopyToClipboard,           *)
(* showShareNotification                                                    *)

\* showShareNotification without the setTimeout
ShowShareNotificationUntimed(sh) == [sh EXCEPT !.notificationHidden = FALSE]

ShowShareNotification(sh) ==
    [sh EXCEPT !.notificationHidden = FALSE, !.timers = @ + 1]

\* the callback of the setTimeout of showShareNotification
HideShareNotification(sh) ==
    [sh EXCEPT !.notificationHidden = TRUE, !.timers = @ - 1,
               !.did = "timer"]

\* what document.execCommand('copy') can do: copy and return true, return
\* false without copying, throw
ExecOutcomes == {"true", "false", "throws"}

\* fallbackCopyToClipboard(text), with the outcome of execCommand
FallbackCopyToClipboard(sh, text, exec) ==
    LET appended == [sh EXCEPT !.textAreas = @ + 1]
        tried == IF exec = "throws"
                 THEN [appended EXCEPT !.logged = @ + 1,
                                       !.did = "fallbackThrew"]
                 ELSE ShowShareNotification(
                          [appended EXCEPT
                              !.clipboard = IF exec = "true" THEN Some(text)
                                            ELSE @,
                              !.did = IF exec = "true" THEN "fallback"
                                      ELSE "fallbackFalse"])
    IN  [tried EXCEPT !.textAreas = @ - 1]

\* shareCurrentSearch up to its await; api tells whether navigator.clipboard
\* exists (reading writeText of undefined throws inside the try block)
ShareCurrentSearch(sh, inputValue, api, exec) ==
    LET query == Trim(inputValue)
        called == [sh EXCEPT !.calls = @ + 1]
    IN  IF query = <<>> THEN [called EXCEPT !.did = "noop"]
        ELSE LET shareUrl == GetShareableUrl(query) IN
             IF api
             THEN [called EXCEPT !.pending = Append(@, shareUrl),
                                 !.did = "started"]
             ELSE FallbackCopyToClipboard(called, shareUrl, exec)

\* the page after the search of a deep link has rendered one result: the
\* share button is visible
Rendered ==
    LET st == Constructed(<<>>, <<"q", "=", "b">>)
        data == [success |-> TRUE, results |-> Some(<<R1>>),
                 summary |-> None, error |-> None]
    IN  Settle(st, 1, TryBody(st.ui, TRUE, data), "rendered", Some(data))

InitShare ==
    /\ \E st \in {Rendered} : Is(st)
    /\ Aside

\* click on the share button (a visible one)
ShareClick(api, exec) ==
    /\ Visible(ui, "shareButton")
    /\ share.calls < MaxShares
    /\ share' = ShareCurrentSearch(share, input, api, exec)
    /\ UNCHANGED <<input, isSearching, ui, search, entries, idx, sessions,
                   nRequests, unhandled, last, call, ret>>

\* await navigator.clipboard.writeText(shareUrl) resolves
ClipboardResolve(i) ==
    /\ i \in 1..Len(share.pending)
    /\ share' = ShowShareNotification(
                    [share EXCEPT !.pending = RemoveAt(@, i),
                                  !.clipboard = Some(share.pending[i]),
                                  !.did = "primary"])
    /\ UNCHANGED <<input, isSearching, ui, search, entries, idx, sessions,
                   nRequests, unhandled, last, call, ret>>

\* await navigator.clipboard.writeText(shareUrl) rejects: the fallback runs
ClipboardReject(i, exec) ==
    /\ i \in 1..Len(share.pending)
    /\ share' = FallbackCopyToClipboard(
                    [share EXCEPT !.pending = RemoveAt(@, i)],
                    share.pending[i], exec)
    /\ UNCHANGED <<input, isSearching, ui, search, entries, idx, sessions,
                   nRequests, unhandled, last, call, ret>>

\* a timer set by showShareNotification expires
TimerFire ==
    /\ share.timers > 0
    /\ share' = HideShareNotification(share)
    /\ UNCHANGED <<input, isSearching, ui, search, entries, idx, sessions,
                   nRequests, unhandled, last, call, ret>>

\* the clipboard promises settle
ClipboardSettle ==
    \E i \in 1..MaxShares :
        \/ ClipboardResolve(i)
        \/ \E exec \in ExecOutcomes : ClipboardReject(i, exec)

NextShare ==
    \/ \E v \in Typed : TypeInput(v)
    \/ \E api \in BOOLEAN, exec \in ExecOutcomes : ShareClick(api, exec)
    \/ ClipboardSettle
    \/ TimerFire

SpecShare == InitShare /\ [][NextShare]_vars

\* a timer that was set expires
FairSpecShare == SpecShare /\ WF_vars(TimerFire)

-----------------------------------------------------------------------------
(* Score badge: formatScore.  A score that is a number is counted in        *)
(* millionths; the scores given are non-negative and none is a rounding tie *)

\* millionths in 1
ScoreUnit == 1000000

\* 0.001 in millionths
Thousandth == ScoreUnit \div 1000

DigitChars == <<"0", "1", "2", "3", "4", "5", "6", "7", "8", "9">>

\* the decimal digits of k >= 0
RECURSIVE Digits(_)
Digits(k) ==
    IF k < 10 THEN <<DigitChars[k + 1]>>
    ELSE Digits(k \div 10) \o <<DigitChars[(k % 10) + 1]>>

\* s with zeros in front up to the width w
RECURSIVE PadZeros(_, _)
PadZeros(s, w) == IF Len(s) >= w THEN s ELSE PadZeros(<<"0">> \o s, w)

RECURSIVE Pow10(_)
Pow10(e) == IF e = 0 THEN 1 ELSE 10 * Pow10(e - 1)

\* a / b rounded to the nearest integer, halves up
RoundDiv(a, b) == a \div b + (IF 2 * (a % b) >= b THEN 1 ELSE 0)

\* Number.prototype.toFixed(f) of n millionths
ToFixed(n, f) ==
    LET q == RoundDiv(n * Pow10(f), ScoreUnit) IN
    Digits(q \div Pow10(f)) \o <<".">> \o PadZeros(Digits(q % Pow10(f)), f)

\* Number.prototype.toExponential(2) of n millionths
ToExponential(n) ==
    IF n = 0 THEN <<"0", ".", "0", "0", "e", "+", "0">>
    ELSE LET k == Len(Digits(n))
             m0 == IF k <= 3 THEN n * Pow10(3 - k)
                   ELSE RoundDiv(n, Pow10(k - 3))
             m == IF m0 = 1000 THEN 100 ELSE m0
             ex == (k - 7) + (IF m0 = 1000 THEN 1 ELSE 0)
         IN  Digits(m \div 100) \o <<".">> \o PadZeros(Digits(m % 100), 2)
             \o <<"e", IF ex < 0 THEN "-" ELSE "+">>
             \o Digits(IF ex < 0 THEN 0 - ex ELSE ex)

\* the score field of a result: absent, null, or a number
AbsentScore == [kind |-> "absent", micro |-> 0]

NullScore == [kind |-> "null", micro |-> 0]

NumberScore(n) == [kind |-> "number", micro |-> n]

\* formatScore: the text, or the TypeError of calling a method of null (null
\* compares as 0, so null < 0.001 holds and null.toExponential is read)
FormatScore(score) ==
    IF score.kind = "null" THEN [thrown |-> TRUE, text |-> <<>>]
    ELSE IF score.micro < Thousandth
    THEN [thrown |-> FALSE, text |-> ToExponential(score.micro)]
    ELSE IF score.micro < ScoreUnit
    THEN [thrown |-> FALSE, text |-> ToFixed(score.micro, 3)]
    ELSE [thrown |-> FALSE, text |-> ToFixed(score.micro, 2)]

\* createResultElement, lines 219-224: the text of the badge, none when no
\* badge is rendered, and whether building the element threw
ScoreBadge(score) ==
    IF score.kind # "absent"
    THEN LET f == FormatScore(score) IN
         [thrown |-> f.thrown,
          badge |-> IF f.thrown THEN None ELSE Some(f.text)]
    ELSE [thrown |-> FALSE, badge |-> None]

\* the numbers: every score up to SmallScoreMax millionths, and scores
\* around 1 and above
ScoreMicros ==
    (0..SmallScoreMax)
    \cup {123400, 500000, 999000, 999499, 999501, 999999}
    \cup {1000000, 1000001, 1004999, 2500000, 12345678}

Scores == {AbsentScore, NullScore} \cup {NumberScore(n) : n \in ScoreMicros}

InitScore ==
    /\ \E st \in {Constructed(<<>>, <<>>)} : Is(st)
    /\ share = InitialShare
    /\ call \in [fn : {"formatScore"}, score : Scores]
    /\ ret = None

\* createResultElement builds the score badge of a result
ScoreBadgeCall ==
    /\ call.fn = "formatScore"
    /\ ret = None
    /\ ret' = Some(ScoreBadge(call.score))
    /\ UNCHANGED <<input, isSearching, ui, search, entries, idx, sessions,
                   nRequests, unhandled, last, share, call>>

NextScore == ScoreBadgeCall

SpecScore == InitScore /\ [][NextScore]_vars

-----------------------------------------------------------------------------
(* Claims *)

\* the arguments a performSearch call can be given: none, an empty string, a
\* blank string, queries
CallArgs == {None, Some(<<>>), Some(<<" ">>), Some(<<"a">>), Some(<<"b">>)}

\* C1: at most one search request is outstanding in every reachable state; a
\* performSearch call with a non-empty query made while one is outstanding
\* issues no request, whatever its argument, and no step taken while one is
\* outstanding (a popstate, a continuation) issues one later.
SingleFlight ==
    /\ [](/\ Len(sessions) <= 1
          /\ sessions # <<>> =>
                \A arg \in CallArgs :
                    EffectiveQuery(Cur, arg) # <<>> =>
                        /\ PerformSearch(Cur, arg).nRequests = nRequests
                        /\ PerformSearch(Cur, arg).sessions = sessions)
    /\ [][sessions # <<>> => nRequests' = nRequests]_vars

\* a performSearch call with a non-empty query was dropped while a request
\* was outstanding
SingleFlightWitness ==
    /\ last.op = "dropped"
    /\ last.query # <<>>
    /\ Len(sessions) = 1
    /\ nRequests = 1

\* C2: no request carries an empty or whitespace-only query.
NoBlankRequest ==
    \A i \in 1..Len(sessions) : Trim(sessions[i].query) # <<>>

\* the value of the URL's q parameter, the empty string when it is absent
UrlQueryValue == IF UrlQ(search) = None THEN <<>> ELSE UrlQ(search)[1]

\* C3: right after a performSearch call has completed (its request settled,
\* or the call was rejected or dropped) the URL's q is the query that call
\* submitted, and is absent when that query was empty.
UrlNeverStale ==
    last.op \in {"completed", "rejected", "dropped"}
        => UrlQueryValue = last.query

\* the session is over: flag reset, spinner hidden, controls enabled
CleanIdle ==
    /\ ~isSearching
    /\ ~Visible(ui, "loadingSpinner")
    /\ ~ui.buttonDisabled
    /\ ~ui.inputDisabled

\* C4: an accepted search whose request resolves or rejects ends, on every
\* exit path, with the flag reset, the loading indicator hidden and the
\* button and input enabled, and a performSearch call is accepted again.
GuaranteedCleanup ==
    /\ (sessions # <<>>) ~> (sessions = <<>> /\ CleanIdle)
    /\ [](last.op = "completed" =>
            /\ CleanIdle
            /\ PerformSearch(Cur, Some(<<"a">>)).last.op = "accepted")

\* the second accepted search ended by an exception thrown while rendering
GuaranteedCleanupWitness ==
    /\ last.op = "completed"
    /\ last.outcome = "renderError"
    /\ nRequests = 2
    /\ CleanIdle

\* C5: a performSearch call made while a session is in flight changes
\* nothing, whatever its argument and the input field hold: sections, error
\* text, input, URL, history and flag stay and no request is issued.
DropIsNoOp ==
    isSearching =>
        \A arg \in CallArgs :
            LET st == PerformSearch(Cur, arg) IN
            /\ st.ui = ui
            /\ st.input = input
            /\ st.search = search
            /\ st.entries = entries
            /\ st.idx = idx
            /\ st.isSearching
            /\ st.sessions = sessions
            /\ st.nRequests = nRequests

FailureOutcomes == {"network", "malformed", "http", "failed", "renderError"}

\* the error state, with nothing of a result list shown and no exception
\* left uncaught
ErrorState ==
    /\ Visible(ui, "errorMessage")
    /\ ~Visible(ui, "resultsContainer")
    /\ ~Visible(ui, "noResults")
    /\ ~Visible(ui, "summarySection")
    /\ ~unhandled

\* C6 as claimed: every failure of an accepted search ends in the error
\* state and no exception escapes; an HTTP non-success response or a
\* success:false body shows the body's error field when it is present and a
\* default message otherwise; a network failure or a malformed body shows the
\* exception's message.
FailuresShowErrorField ==
    last.op = "completed" /\ last.outcome \in FailureOutcomes =>
        /\ ErrorState
        /\ IF last.outcome \in {"http", "failed"}
           THEN LET e == last.detail[1].error IN
                IF e # None THEN ui.errorText = e[1]
                ELSE ui.errorText \in {MsgSearchFailed, MsgUnknownError}
           ELSE ui.errorText \in {MsgNetwork, MsgParse, MsgRender}

\* C6 amended: as above, but the body's error field is shown when it is
\* present and not empty, and a default message otherwise.
FailuresEndInError ==
    last.op = "completed" /\ last.outcome \in FailureOutcomes =>
        /\ ErrorState
        /\ IF last.outcome \in {"http", "failed"}
           THEN LET e == last.detail[1].error IN
                IF e # None /\ e[1] # <<>> THEN ui.errorText = e[1]
                ELSE ui.errorText \in {MsgSearchFailed, MsgUnknownError}
           ELSE ui.errorText \in {MsgNetwork, MsgParse, MsgRender}

\* an HTTP non-success response whose body carries an error message
FailuresEndInErrorWitness ==
    /\ last.op = "completed"
    /\ last.outcome = "http"
    /\ last.detail[1].error = Some(<<"b">>)
    /\ ui.errorText = <<"b">>
    /\ ErrorState

\* C7: at most one of the loading indicator, the results list, the
\* no-results notice and the error message is visible, and the summary block
\* is visible only together with the results list.
DisplayExclusive ==
    /\ Cardinality({e \in {"loadingSpinner", "resultsContainer", "noResults",
                           "errorMessage"} : Visible(ui, e)}) <= 1
    /\ Visible(ui, "summarySection") => Visible(ui, "resultsContainer")

\* results and summary are shown after an error message had been shown
DisplayExclusiveWitness ==
    /\ Visible(ui, "summarySection")
    /\ Visible(ui, "resultsContainer")
    /\ ui.errorText # <<>>

\* C8: rendering a response a second time leaves the DOM exactly as the
\* first rendering left it, from every reachable DOM (so also after another
\* response was rendered), and a list that is shown holds as many items as
\* the response has results; right after a search rendered its response,
\* displayResults with that response changes nothing.
RenderIdempotent ==
    /\ \A d \in SuccessDatas :
           LET once == DisplayResults(ui, d) IN
           /\ DisplayResults(once.ui, d) = once
           /\ Visible(once.ui, "resultsContainer") =>
                  Len(once.ui.resultsList) = Len(d.results[1])
    /\ last.op = "completed" /\ last.outcome = "rendered" =>
           DisplayResults(ui, last.detail[1]) = [ui |-> ui, thrown |-> None]

\* a one-result response without summary was rendered over an earlier
\* rendering of a response that had a summary
RenderIdempotentWitness ==
    /\ last.op = "completed"
    /\ last.outcome = "rendered"
    /\ last.detail[1].summary = None
    /\ ui.summaryContent # None
    /\ Len(ui.resultsList) = 1
    /\ ui.resultsCount = 1

\* C9: a page loaded at getShareableUrl(x), x trimmed and not empty, has
\* issued exactly one request, for x, and shows x in the input field,
\* whatever the field held, before any user interaction.
DeepLinkRoundTrip ==
    \A link \in ShareableUrls :
        entries[1] = link[2] =>
            LET x == link[1] IN
            /\ nRequests = 1
            /\ input = x
            /\ last.op \in {"accepted", "completed"}
            /\ last.query = x
            /\ Len(sessions) <= 1
            /\ sessions # <<>> => sessions[1].query = x

\* the search for "a +" started by the deep link has rendered its results
DeepLinkRoundTripWitness ==
    /\ entries[1] = GetShareableUrl(<<"a", " ", "+">>)
    /\ input = <<"a", " ", "+">>
    /\ last.op = "completed"
    /\ last.outcome = "rendered"

\* C10 as claimed: on popstate, a q that is present triggers performSearch
\* with that q; an absent q changes nothing.
NavigationByPresence ==
    [][\A j \in 1..(MaxRequests + 1) :
          PopState(j) =>
              LET q == UrlQ(entries[j]) IN
              IF q # None
              THEN /\ last'.op \in {"accepted", "dropped", "rejected"}
                   /\ last'.arg = q
              ELSE /\ last'.op = "noquery"
                   /\ UNCHANGED <<input, ui, isSearching, sessions, nRequests,
                                  entries, unhandled>>
                   /\ search' = entries[j]
                   /\ idx' = j]_vars

\* C10 amended: on popstate, a q that is present and not empty triggers
\* performSearch with exactly that q, whatever the input field holds (an
\* accepted call puts q in the field and in the request); a q that is absent
\* or empty changes nothing: no request, no history entry, the URL of the
\* entry navigated to, sections and input as they were.
NavigationByQuery ==
    [][\A j \in 1..(MaxRequests + 1) :
          PopState(j) =>
              LET q == UrlQ(entries[j]) IN
              IF Truthy(q)
              THEN /\ last'.op \in {"accepted", "dropped"}
                   /\ last'.arg = q
                   /\ last'.query = q[1]
                   /\ last'.op = "accepted" =>
                          /\ input' = q[1]
                          /\ sessions' = <<[query |-> q[1], stage |-> "fetch",
                                            ok |-> FALSE]>>
                          /\ nRequests' = nRequests + 1
                   /\ last'.op = "dropped" =>
                          UNCHANGED <<input, ui, sessions, nRequests, entries>>
              ELSE /\ last'.op = "noquery"
                   /\ UNCHANGED <<input, ui, isSearching, sessions, nRequests,
                                  entries, unhandled>>
                   /\ search' = entries[j]
                   /\ idx' = j]_vars

\* a search started by a back/forward navigation (the second request; the
\* first was the page load's)
NavigationByQueryWitness ==
    /\ last.op = "accepted"
    /\ last.arg # None
    /\ nRequests = 2
    /\ input = last.query

\* the characters of s that are not white space, in order
NonBlank(s) == SelectSeq(s, LAMBDA c : c \notin WhiteSpace)

\* the markup m stands for the text t: no special character of t is in m as
\* itself, apart from those of allowed, the only tags are those of tags, and
\* the character data is t (white space aside, which the formatters turn
\* into tags or trim)
StandsFor(m, t, tags, allowed) ==
    LET p == ParseMarkup(m, tags) IN
    /\ p.raw \subseteq allowed
    /\ NonBlank(p.text) = NonBlank(t)

\* C11 as claimed: in the markup produced for a result's content, for the
\* summary and for a breadcrumb heading, every <, >, & and " of the text is
\* an entity and the only tags are <p>, </p> and <br> (none inside a
\* heading); an error message is inserted as plain text.
EscapedEverywhere ==
    ret # None =>
        CASE call.fn = "formatText" ->
                 StandsFor(ret[1], call.text, {TagP, TagPEnd, TagBr}, {})
          [] call.fn = "formatSummary" ->
                 StandsFor(ret[1], call.text, {TagP, TagPEnd, TagBr}, {})
          [] call.fn = "escapeHtml" ->
                 StandsFor(ret[1], call.text, {}, {})
          [] call.fn = "showError" -> ui.errorText = call.text

\* C11 amended: as above, but in a breadcrumb heading only <, > and & are
\* entities; a " of a heading stays as it is (in element content, never
\* inside a tag).
EscapedMarkup ==
    ret # None =>
        CASE call.fn = "formatText" ->
                 StandsFor(ret[1], call.text, {TagP, TagPEnd, TagBr}, {})
          [] call.fn = "formatSummary" ->
                 StandsFor(ret[1], call.text, {TagP, TagPEnd, TagBr}, {})
          [] call.fn = "escapeHtml" ->
                 StandsFor(ret[1], call.text, {}, {QUOT})
          [] call.fn = "showError" -> ui.errorText = call.text

\* a content with a quoted attribute, a tag and an ampersand was formatted
EscapedMarkupWitness ==
    /\ call.fn = "formatText"
    /\ call.text = <<"a", QUOT, ">", "<", "a", " ", "b", "=", QUOT, "&", APOS>>
    /\ ret # None
    /\ Includes(ret[1], EntQuot)
    /\ Includes(ret[1], EntLt)
    /\ Includes(ret[1], EntAmp)

\* the 0-based index of the last space among the first MaxLength characters
\* of t, -1 when there is none
LastSpaceWithin(t) ==
    LET spaces == {i \in 0..(MaxLength - 1) : i < Len(t) /\ t[i + 1] = " "} IN
    IF spaces = {} THEN -1
    ELSE CHOOSE i \in spaces : \A j \in spaces : j <= i

\* C12 as claimed: a string of at most MaxLength characters is returned
\* unchanged; a longer one becomes a prefix followed by the ellipsis, the
\* prefix ending before the last space of the first MaxLength characters when
\* the index of that space is at least 0.8 * MaxLength, and being the first
\* MaxLength characters otherwise.
TruncatesAtOrAfterEighty ==
    ret # None =>
        LET t == call.text
            i == LastSpaceWithin(t)
        IN  IF Len(t) <= MaxLength THEN ret[1] = t
            ELSE IF i * 10 >= MaxLength * 8
            THEN ret[1] = SubSeq(t, 1, i) \o Ellipsis
            ELSE ret[1] = SubSeq(t, 1, MaxLength) \o Ellipsis

\* C12 amended: as above, but the prefix ends before the last space only
\* when the index of that space is greater than 0.8 * MaxLength; a space at
\* exactly that index, and white space other than a space, do not count.
TruncatesAfterEighty ==
    ret # None =>
        LET t == call.text
            i == LastSpaceWithin(t)
        IN  IF Len(t) <= MaxLength THEN ret[1] = t
            ELSE IF i * 10 > MaxLength * 8
            THEN ret[1] = SubSeq(t, 1, i) \o Ellipsis
            ELSE ret[1] = SubSeq(t, 1, MaxLength) \o Ellipsis

\* a content of MaxLength + 1 characters was cut before its last space, at
\* index 0.8 * MaxLength + 1, a line feed further on notwithstanding
TruncatesAfterEightyWitness ==
    /\ ret # None
    /\ Len(call.text) = MaxLength + 1
    /\ LastSpaceWithin(call.text) = EightyPos
    /\ call.text[EightyPos + 10] = LF
    /\ Len(ret[1]) = EightyPos + 3

\* the headings of m that are present (non-empty strings), h1 then h2 then h3
PresentHeadings(m) ==
    LET hs == <<m.h1, m.h2, m.h3>> IN
    SelectSeq(hs, LAMBDA h : h # None /\ h # Some(<<>>))

\* C13: for every combination of present and absent h1, h2, h3 and
\* source_path, the segments of the trail are the present headings in the
\* order h1, h2, h3, one separator between two segments; the last segment is
\* a link to the source when source_path is non-empty and every other
\* segment is plain text; without headings the region holds the single
\* open-source link when source_path is non-empty, and there is no region
\* otherwise, nor when the metadata is absent.
BreadcrumbTrail ==
    ret # None =>
        LET region == ret[1]
            md == call.metadata
            resolved == md # None /\ md[1].source_path \notin {None, Some(<<>>)}
            link == SourceBase \o md[1].source_path[1]
            present == IF md = None THEN <<>> ELSE PresentHeadings(md[1])
        IN  IF present = <<>>
            THEN IF resolved
                 THEN /\ region # None
                      /\ Len(region[1]) = 1
                      /\ region[1][1].tag = "a"
                      /\ region[1][1].href = Some(link)
                      /\ region[1][1].inner = OpenSourceLabel
                 ELSE region = None
            ELSE /\ region # None
                 /\ Len(region[1]) = 2 * Len(present) - 1
                 /\ \A k \in 1..Len(present) :
                        LET seg == region[1][2 * k - 1] IN
                        /\ seg.inner = EscapeHtml(present[k][1])
                        /\ IF resolved /\ k = Len(present)
                           THEN seg.tag = "a" /\ seg.href = Some(link)
                           ELSE seg.tag = "span" /\ seg.href = None
                 /\ \A k \in 1..(Len(present) - 1) :
                        region[1][2 * k] = Separator

\* the trail of h1 and h3, h2 absent, whose last segment is the link
BreadcrumbTrailWitness ==
    /\ ret # None
    /\ call.metadata # None
    /\ call.metadata[1].h1 = Some(<<"A">>)
    /\ call.metadata[1].h2 = None
    /\ call.metadata[1].h3 = Some(<<"C">>)
    /\ call.metadata[1].source_path = Some(<<"p">>)
    /\ Len(ret[1][1]) = 3
    /\ ret[1][1][1].tag = "span"
    /\ ret[1][1][3].tag = "a"
    /\ ret[1][1][3].inner = <<"C">>

\* C14: a shareCurrentSearch call with an empty trimmed input changes
\* nothing; otherwise the primary clipboard write is tried and, when it
\* fails, the fallback; the notice is shown by a step in which a copy
\* succeeded and left as it was by a step in which primary write and fallback
\* both failed; no share step touches the sections or the error text; no
\* textarea is left in the document after any step.
ShareNoticeFollowsCopy ==
    [][share' # share =>
          /\ ui' = ui
          /\ share'.textAreas = 0
          /\ CASE share'.did = "noop" ->
                      /\ Trim(input) = <<>>
                      /\ share' = [share EXCEPT !.calls = @ + 1,
                                                !.did = "noop"]
               [] share'.did = "started" ->
                      /\ Trim(input) # <<>>
                      /\ share'.pending =
                             Append(share.pending, GetShareableUrl(Trim(input)))
                      /\ share'.notificationHidden = share.notificationHidden
               [] share'.did \in {"primary", "fallback"} ->
                      /\ ~share'.notificationHidden
                      /\ share'.clipboard # None
               [] share'.did \in {"fallbackFalse", "fallbackThrew"} ->
                      /\ share'.notificationHidden = share.notificationHidden
                      /\ share'.timers = share.timers
                      /\ share'.clipboard = share.clipboard
               [] OTHER -> TRUE]_vars

NotificationTimers ==
    /\ [][share' # share /\ share'.did \in {"primary", "fallback"} =>
             /\ ~share'.notificationHidden
             /\ share'.timers = share.timers + 1]_vars
    /\ [](share.timers = 0 => share.notificationHidden)
    /\ (~share.notificationHidden) ~> share.notificationHidden
    /\ [][TimerFire => share'.notificationHidden]_vars

\* after two copies the first timer has fired and hidden the notification
\* while the second timer is still pending
NotificationTimersWitness ==
    /\ share.did = "timer"
    /\ share.calls >= 2
    /\ share.clipboard # None
    /\ share.timers = 1
    /\ share.notificationHidden

\* the text is in exponent notation
HasExponent(text) == \E i \in 1..Len(text) : text[i] = "e"

\* the number of digits between the decimal point and the exponent or the end
FractionDigits(text) ==
    LET dot == IndexOf(text, ".")
        e == IndexOf(text, "e")
    IN  IF dot = 0 THEN 0
        ELSE (IF e = 0 THEN Len(text) + 1 ELSE e) - dot - 1

\* C17: building the score badge never throws; the badge is rendered
\* exactly when the score field is not absent; a score below 0.001 is in
\* exponent notation with 2 fraction digits, a score from 0.001 to below 1 in
\* fixed notation with 3, a score of 1 or more in fixed notation with 2.
ScoreBadgeByRange ==
    ret # None =>
        LET score == call.score
            r == ret[1]
        IN  /\ ~r.thrown
            /\ r.badge # None <=> score.kind # "absent"
            /\ score.kind = "number" =>
                   LET text == r.badge[1] IN
                   IF score.micro < Thousandth
                   THEN HasExponent(text) /\ FractionDigits(text) = 2
                   ELSE IF score.micro < ScoreUnit
                   THEN ~HasExponent(text) /\ FractionDigits(text) = 3
                   ELSE ~HasExponent(text) /\ FractionDigits(text) = 2

\* C18: a back/forward navigation leaves the session history as it is (the
\* search it triggers adds no entry and discards none) and the entry
\* navigated to stays the current one, so that Forward after Back reaches the
\* later search and repeated Back moves towards the first entry.
NavigationKeepsHistory ==
    [][\A j \in 1..(MaxRequests + 1) :
          PopState(j) => entries' = entries /\ idx' = j]_vars

\* C19: when no session is in flight, the response of a search has just been
\* displayed (results list or no-results notice) and the URL has a non-empty
\* q, that q is the query of the search whose response is displayed.
ResultsMatchUrl ==
    /\ ~isSearching
    /\ sessions = <<>>
    /\ last.op = "completed"
    /\ last.outcome = "rendered"
    /\ Visible(ui, "resultsContainer") \/ Visible(ui, "noResults")
    /\ Truthy(UrlQ(search))
    => UrlQ(search)[1] = last.query

\* C20: in every state between two handlers the search button and the
\* input field are disabled exactly when a search session is in flight, and
\* the loading indicator is visible only while one is in flight.
ControlsTrackFlight ==
    /\ isSearching <=> sessions # <<>>
    /\ ui.buttonDisabled <=> isSearching
    /\ ui.inputDisabled <=> isSearching
    /\ Visible(ui, "loadingSpinner") => isSearching

\* the second search is in flight, started after the first one had ended
\* and re-enabled the controls
ControlsTrackFlightWitness ==
    /\ nRequests = 2
    /\ isSearching
    /\ ui.buttonDisabled
    /\ ui.inputDisabled
    /\ Visible(ui, "loadingSpinner")

====
